---- MODULE Spec2Model ----
(***************************************************************************)
(* kwealth: Scout -> Analyst (bear, bull) -> Synthesizer pipeline.         *)
(*                                                                         *)
(* Conventions.  A Python value that may be None is a sequence: <<>> is    *)
(* None and <<v>> is the value v.  A ticker or a company name is a         *)
(* sequence of characters; other strings are strings.                      *)
(* A float is an integer number of tenths where a range is checked         *)
(* (confidence 0.0 .. 1.0 is 0 .. 10) and an integer otherwise (prices).   *)
(* A call's result is [ok |-> TRUE, value |-> v] or                        *)
(* [ok |-> FALSE, exc |-> e] with e the exception raised.                  *)
(***************************************************************************)
EXTENDS Integers, Sequences, FiniteSets, TLC

VARIABLES
    pc,         \* position of the caller (harness or driver)
    ticker,     \* the ticker string handed to fetch_scout_report
    report,     \* Option(ScoutReport)
    bear_memo,  \* Option(AnalystMemo)
    bull_memo,  \* Option(AnalystMemo)
    final,      \* Option(FinalRecommendation)
    final2,     \* Option(FinalRecommendation): a second synthesize call, same arguments
    calls,      \* history: the stages invoked so far, in order
    exc,        \* Option(exception) that ended the run
    messages,   \* the error messages the driver has shown (st.error)
    displayed,  \* Option(FinalRecommendation) handed to display_results
    inp,        \* the arguments of the last direct call of a function under test
    out         \* the result of that call

vars == <<pc, ticker, report, bear_memo, bull_memo, final, final2, calls, exc,
          messages, displayed, inp, out>>

None == <<>>
Some(v) == <<v>>
IsNone(o) == o = <<>>
Get(o) == o[1]

Ok(v) == [ok |-> TRUE, value |-> v]
Raise(e) == [ok |-> FALSE, exc |-> e]

(***************************************************************************)
(* Program constants.                                                      *)
(***************************************************************************)
MAX_HEADLINES == 5
SummaryMaxLen == 500
RiskRewardMaxLen == 300
SynthesisSummaryMaxLen == 600
KeyPointsMin == 3
KeyPointsMax == 5
KeyCaveatsMin == 1
KeyCaveatsMax == 5
\* confidence bounds ge=0.0, le=1.0, in tenths
ConfidenceMin == 0
ConfidenceMax == 10

(***************************************************************************)
(* Bounds of the model.                                                    *)
(***************************************************************************)
MaxNews == 6          \* longest raw news list tried (one more than MAX_HEADLINES)
MaxTickerLen == 2     \* longest ticker tried
MaxListLen == 6       \* longest key_points / key_caveats list tried

(***************************************************************************)
(* Strings.                                                                *)
(***************************************************************************)
\* str.upper(), character by character
UpperChar(c) ==
    CASE c = "a" -> "A"
      [] c = "b" -> "B"
      [] OTHER -> c

Upper(s) == [i \in DOMAIN s |-> UpperChar(s[i])]

IsSpace(c) == c = " "

RECURSIVE LStrip(_)
LStrip(s) == IF s # <<>> /\ IsSpace(Head(s)) THEN LStrip(Tail(s)) ELSE s

RECURSIVE RStrip(_)
RStrip(s) ==
    IF s # <<>> /\ IsSpace(s[Len(s)]) THEN RStrip(SubSeq(s, 1, Len(s) - 1)) ELSE s

\* str.strip()
Strip(s) == RStrip(LStrip(s))

\* Python truthiness of an Option(number): None and 0 are falsy
TruthyNum(o) == ~IsNone(o) /\ Get(o) # 0
\* Python truthiness of an Option(str): None and "" are falsy
TruthyStr(o) == ~IsNone(o) /\ Get(o) # ""
\* the same for a str kept as a sequence of characters (a name, a ticker)
TruthyName(o) == ~IsNone(o) /\ Get(o) # <<>>

\* Python's  a or b  on Option(number) and on Option(name)
PyOrNum(a, b) == IF TruthyNum(a) THEN a ELSE b
PyOrName(a, b) == IF TruthyName(a) THEN a ELSE b

(***************************************************************************)
(* Exceptions: a class name and where it was raised.  pydantic's           *)
(* ValidationError is a subclass of ValueError.                            *)
(***************************************************************************)
Exc(cls, site) == [cls |-> cls, site |-> site, cause |-> None]
ExcFrom(cls, site, e) == [cls |-> cls, site |-> site, cause |-> Some(e.cls)]

IsInstance(e, cls) ==
    \/ e.cls = cls
    \/ cls = "Exception"
    \/ e.cls = "ValidationError" /\ cls = "ValueError"

(***************************************************************************)
(* Data source payloads (yfinance).  info: the result of info.get(key) per *)
(* key, None when the key is missing or null; empty: the dict has no key.  *)
(* A news item is a dict: a key is absent (<<>>) or present with an        *)
(* Option value (<<None>>, <<Some(s)>>).  The lookup itself (a network     *)
(* read) may raise instead.                                                *)
(***************************************************************************)
SourceRaises(e) == [raises |-> TRUE, exc |-> e, info |-> <<>>, news |-> <<>>]
SourceReturns(info, news) ==
    [raises |-> FALSE, exc |-> [cls |-> "none", site |-> "none", cause |-> <<>>],
     info |-> info, news |-> news]

Absent == <<>>
Present(v) == <<v>>
\* dict.get(key, default)
DictGet(field, default) == IF field = Absent THEN default ELSE field[1]

EmptyInfo ==
    [empty |-> TRUE, currentPrice |-> None, regularMarketPrice |-> None,
     longName |-> None, shortName |-> None]

(***************************************************************************)
(* schemas.py: NewsHeadline, FinancialMetrics, ScoutReport.                *)
(***************************************************************************)
\* NewsHeadline(title: str, publisher: str, link: str | None)
ValidNewsHeadline(title, publisher, link) == ~IsNone(title) /\ ~IsNone(publisher)

NewsHeadline(title, publisher, link) ==
    [title |-> Get(title), publisher |-> Get(publisher), link |-> link]

(***************************************************************************)
(* scout.py: fetch_scout_report.  fetch_timestamp (the wall clock) is not  *)
(* modelled, nor are the optional numeric metrics copied from info.        *)
(***************************************************************************)
\* line 28: the payload is unusable
NoData(info) ==
    info.empty \/ (IsNone(info.regularMarketPrice) /\ IsNone(info.currentPrice))

\* line 32: info.get("currentPrice") or info.get("regularMarketPrice")
CurrentPrice(info) == PyOrNum(info.currentPrice, info.regularMarketPrice)

\* line 44: longName or shortName or ticker.upper()
CompanyName(t, info) ==
    Get(PyOrName(PyOrName(info.longName, info.shortName), Some(Upper(t))))

Min(a, b) == IF a < b THEN a ELSE b

\* raw_news[:MAX_HEADLINES]
FirstItems(raw_news) == SubSeq(raw_news, 1, Min(Len(raw_news), MAX_HEADLINES))

\* the item passes the comprehension's filter: item.get("title") is truthy
HasTitle(item) == TruthyStr(DictGet(item.title, None))

RECURSIVE Filter(_)
Filter(items) ==
    IF items = <<>> THEN <<>>
    ELSE IF HasTitle(Head(items)) THEN <<Head(items)>> \o Filter(Tail(items))
    ELSE Filter(Tail(items))

\* a mutant of KeptItems: filter first, then cut to MAX_HEADLINES
KeptItemsFilterFirst(raw_news) == FirstItems(Filter(raw_news))

\* lines 61-69: the items a NewsHeadline is built from, in source order
KeptItems(raw_news) == Filter(FirstItems(raw_news))

ItemTitle(item) == DictGet(item.title, Some(""))
ItemPublisher(item) == DictGet(item.publisher, Some(""))
ItemLink(item) == DictGet(item.link, None)

Headlines(raw_news) ==
    LET kept == KeptItems(raw_news)
    IN [i \in DOMAIN kept |->
           NewsHeadline(ItemTitle(kept[i]), ItemPublisher(kept[i]), ItemLink(kept[i]))]

HeadlinesValid(raw_news) ==
    LET kept == KeptItems(raw_news)
    IN \A i \in DOMAIN kept :
           ValidNewsHeadline(ItemTitle(kept[i]), ItemPublisher(kept[i]), ItemLink(kept[i]))

\* news: Option(list), stock.news or []
RawNews(news) == IF IsNone(news) THEN <<>> ELSE Get(news)

ScoutReport(t, info, news) ==
    IF NoData(info) THEN Raise(Exc("ValueError", "scout:invalid_ticker"))
    ELSE IF IsNone(CurrentPrice(info))
    THEN Raise(Exc("ValueError", "scout:no_current_price"))
    ELSE IF ~HeadlinesValid(RawNews(news))
    THEN Raise(Exc("ValidationError", "scout:NewsHeadline"))
    ELSE Ok([metrics |-> [ticker |-> Upper(t),
                          company_name |-> CompanyName(t, info),
                          current_price |-> Get(CurrentPrice(info))],
             headlines |-> Headlines(RawNews(news))])

\* lines 24-25: stock.info is read outside any try
fetch_scout_report(t, source) ==
    IF source.raises THEN Raise(source.exc)
    ELSE ScoutReport(t, source.info, source.news)

(***************************************************************************)
(* schemas.py: AnalystMemo, SynthesizerOutput, FinalRecommendation.        *)
(* A candidate is the set of field values handed to the constructor.  A    *)
(* str with a length cap is its length; a list[str] is a sequence of       *)
(* Option(str), None being a null entry (not a str).                       *)
(***************************************************************************)
Perspectives == {"bear", "bull"}
Recommendations == {"STRONG_BUY", "BUY", "HOLD", "SELL", "STRONG_SELL"}

\* every entry of a list[str] is a str
AllStr(list) == \A i \in DOMAIN list : ~IsNone(list[i])

\* Field(min_length=lo, max_length=hi) on a list
LenBetween(list, lo, hi) == lo <= Len(list) /\ Len(list) <= hi

\* Field(ge=0.0, le=1.0)
ConfidenceInRange(c) == ConfidenceMin <= c /\ c <= ConfidenceMax

\* a mutant of ValidKeyPoints: max_length exclusive
ValidKeyPointsMaxExclusive(kp) ==
    AllStr(kp) /\ KeyPointsMin <= Len(kp) /\ Len(kp) < KeyPointsMax

\* key_points: list[str] = Field(min_length=3, max_length=5)
ValidKeyPoints(kp) == AllStr(kp) /\ LenBetween(kp, KeyPointsMin, KeyPointsMax)

\* a mutant of ValidKeyCaveats: min_length left out
ValidKeyCaveatsNoMin(kc) == AllStr(kc) /\ Len(kc) <= KeyCaveatsMax

\* key_caveats: list[str] = Field(min_length=1, max_length=5)
ValidKeyCaveats(kc) == AllStr(kc) /\ LenBetween(kc, KeyCaveatsMin, KeyCaveatsMax)

ValidAnalystMemo(c) ==
    /\ c.perspective \in Perspectives
    /\ c.summary <= SummaryMaxLen
    /\ ValidKeyPoints(c.key_points)
    /\ c.risk_reward_assessment <= RiskRewardMaxLen
    /\ ConfidenceInRange(c.confidence_in_thesis)

Strs(list) == [i \in DOMAIN list |-> Get(list[i])]

\* AnalystMemo(**c): the object, or pydantic's ValidationError
AnalystMemo(c) ==
    IF ValidAnalystMemo(c)
    THEN Ok([perspective |-> c.perspective, ticker |-> c.ticker, summary |-> c.summary,
             key_points |-> Strs(c.key_points),
             risk_reward_assessment |-> c.risk_reward_assessment,
             confidence_in_thesis |-> c.confidence_in_thesis])
    ELSE Raise(Exc("ValidationError", "schemas:AnalystMemo"))

\* the fields SynthesizerOutput and FinalRecommendation share
ValidSynthesizerFields(c) ==
    /\ c.recommendation \in Recommendations
    /\ ConfidenceInRange(c.confidence_score)
    /\ c.synthesis_summary <= SynthesisSummaryMaxLen
    /\ ValidKeyCaveats(c.key_caveats)

SynthesizerOutput(c) ==
    IF ValidSynthesizerFields(c)
    THEN Ok([ticker |-> c.ticker, recommendation |-> c.recommendation,
             confidence_score |-> c.confidence_score,
             synthesis_summary |-> c.synthesis_summary,
             key_caveats |-> Strs(c.key_caveats)])
    ELSE Raise(Exc("ValidationError", "schemas:SynthesizerOutput"))

\* FinalRecommendation(**c, bull_memo=bull, bear_memo=bear): a memo that is
\* already an AnalystMemo instance is kept as it is
FinalRecommendation(c, bull, bear) ==
    IF ValidSynthesizerFields(c)
    THEN Ok([ticker |-> c.ticker, recommendation |-> c.recommendation,
             confidence_score |-> c.confidence_score,
             synthesis_summary |-> c.synthesis_summary,
             key_caveats |-> Strs(c.key_caveats),
             bull_memo |-> bull, bear_memo |-> bear])
    ELSE Raise(Exc("ValidationError", "schemas:FinalRecommendation"))

(***************************************************************************)
(* The LLM backend's answer to generate_content: it raises e               *)
(* ([raises |-> TRUE, exc |-> e]) or returns a response whose parsed is    *)
(* None or an object ([raises |-> FALSE, parsed |-> Option(object)]).      *)
(***************************************************************************)
BackendRaises(e) == [raises |-> TRUE, exc |-> e, parsed |-> None]
BackendReturns(parsed) == [raises |-> FALSE, exc |-> Exc("none", "none"), parsed |-> parsed]

(***************************************************************************)
(* analyst.py                                                              *)
(***************************************************************************)
\* a mutant of OverrideMemo: the backend's perspective is trusted
OverrideMemoTickerOnly(memo, perspective, rep) ==
    [memo EXCEPT !.ticker = rep.metrics.ticker]

\* a mutant of OverrideMemo: the backend's ticker is trusted
OverrideMemoPerspectiveOnly(memo, perspective, rep) ==
    [memo EXCEPT !.perspective = perspective]

\* lines 79-80: memo.perspective = perspective; memo.ticker = report.metrics.ticker
OverrideMemo(memo, perspective, rep) ==
    [memo EXCEPT !.perspective = perspective, !.ticker = rep.metrics.ticker]

_generate_memo(rep, perspective, backend) ==
    IF backend.raises
    THEN Raise(ExcFrom("RuntimeError", "analyst:api_call_failed", backend.exc))
    ELSE IF IsNone(backend.parsed)
    THEN Raise(Exc("RuntimeError", "analyst:invalid_response"))
    ELSE Ok(OverrideMemo(Get(backend.parsed), perspective, rep))

generate_bear_memo(rep, backend) == _generate_memo(rep, "bear", backend)

generate_bull_memo(rep, backend) == _generate_memo(rep, "bull", backend)

(***************************************************************************)
(* synthesizer.py                                                          *)
(***************************************************************************)
\* the backend's object as constructor arguments (its strings are strs)
AsFields(o) == [o EXCEPT !.key_caveats = [i \in DOMAIN @ |-> Some(@[i])]]

\* a mutant of Compose: the bull memo's confidence re-derived from the backend's output
ComposeRederived(synth_output, bull, bear) ==
    FinalRecommendation(AsFields(synth_output),
        [bull EXCEPT !.confidence_in_thesis = synth_output.confidence_score], bear)

\* a mutant of Compose: the memos swapped
ComposeSwapped(synth_output, bull, bear) ==
    FinalRecommendation(AsFields(synth_output), bear, bull)

\* lines 87-95
Compose(synth_output, bull, bear) ==
    FinalRecommendation(AsFields(synth_output), bull, bear)

synthesize(bull, bear, metrics, backend) ==
    IF backend.raises
    THEN Raise(ExcFrom("RuntimeError", "synthesizer:api_call_failed", backend.exc))
    ELSE IF IsNone(backend.parsed)
    THEN Raise(Exc("RuntimeError", "synthesizer:invalid_response"))
    ELSE Compose(Get(backend.parsed), bull, bear)

(***************************************************************************)
(* Input domains.                                                          *)
(***************************************************************************)
SeqsUpTo(S, n) == UNION {[1..k -> S] : k \in 0..n}

TickerChars == {"a", "B", "1"}
Tickers == SeqsUpTo(TickerChars, MaxTickerLen)

Prices == {None, Some(0), Some(1), Some(2)}

Infos ==
    {EmptyInfo} \cup
    [empty : {FALSE}, currentPrice : Prices, regularMarketPrice : Prices,
     longName : {None, Some(<<>>), Some(<<"L">>)}, shortName : {None, Some(<<"S">>)}]

GoodInfo ==
    [empty |-> FALSE, currentPrice |-> Some(2), regularMarketPrice |-> Some(1),
     longName |-> None, shortName |-> Some(<<"S">>)]

\* news items that differ in their title only
TitleItems ==
    [title : {Absent, Present(Some("")), Present(Some("t1")), Present(Some("t2"))},
     publisher : {Present(Some("pub"))}, link : {Absent}]

\* news items that differ in publisher and link
PublisherItems ==
    [title : {Present(None), Present(Some("t1"))},
     publisher : {Absent, Present(None), Present(Some("pub"))},
     link : {Absent, Present(Some("url"))}]

NetworkError == Exc("ConnectionError", "network")

ScoutSources ==
    {SourceRaises(NetworkError)}
    \cup {SourceReturns(i, n) : i \in Infos, n \in {None, Some(<<>>)}}

NewsSources ==
    {SourceReturns(GoodInfo, Some(l)) : l \in SeqsUpTo(TitleItems, MaxNews)}
    \cup {SourceReturns(GoodInfo, Some(<<i>>)) : i \in PublisherItems}

ScoutInputs ==
    [ticker : Tickers, source : ScoutSources]
    \cup [ticker : {<<"a">>}, source : NewsSources]

(***************************************************************************)
(* SpecScout: fetch_scout_report called once on each input.                *)
(***************************************************************************)
Unused ==
    /\ ticker = <<>>
    /\ report = None
    /\ bear_memo = None
    /\ bull_memo = None
    /\ final = None
    /\ final2 = None
    /\ calls = <<>>
    /\ exc = None
    /\ messages = <<>>
    /\ displayed = None

InitScout ==
    /\ pc = "call"
    /\ inp \in ScoutInputs
    /\ out = None
    /\ Unused

ScoutCall ==
    /\ pc = "call"
    /\ out' = Some(fetch_scout_report(inp.ticker, inp.source))
    /\ pc' = "returned"
    /\ UNCHANGED <<ticker, report, bear_memo, bull_memo, final, final2, calls, exc,
                   messages, displayed, inp>>

NextScout == ScoutCall

SpecScout == InitScout /\ [][NextScout]_vars

Returned == pc = "returned"
Result == Get(out)

(***************************************************************************)
(* C4.  For every info payload, fetch_scout_report sets current_price to   *)
(* currentPrice when that field is not null, otherwise to                  *)
(* regularMarketPrice when that one is not null, and raises ValueError     *)
(* when both are null or the payload is empty.                             *)
(***************************************************************************)
C4_PriceFallback ==
    (Returned /\ ~inp.source.raises /\ HeadlinesValid(RawNews(inp.source.news))) =>
        IF inp.source.info.empty
           \/ (IsNone(inp.source.info.currentPrice) /\ IsNone(inp.source.info.regularMarketPrice))
        THEN ~Result.ok /\ Result.exc.cls = "ValueError"
        ELSE /\ Result.ok
             /\ Result.value.metrics.current_price =
                    IF ~IsNone(inp.source.info.currentPrice)
                    THEN Get(inp.source.info.currentPrice)
                    ELSE Get(inp.source.info.regularMarketPrice)

(***************************************************************************)
(* C5.  The headlines of the ScoutReport are exactly the items with a      *)
(* non-empty title among the first MAX_HEADLINES raw items, in source      *)
(* order: no untitled item, at most MAX_HEADLINES entries, and an empty or *)
(* missing news list gives no headline.                                    *)
(***************************************************************************)
Titled(item) ==
    item.title # Absent /\ item.title[1] # None /\ item.title[1][1] # ""

ExpectedTitles(raw) ==
    LET first == [i \in 1..Min(Len(raw), MAX_HEADLINES) |-> raw[i]]
        kept == SelectSeq(first, Titled)
    IN [i \in DOMAIN kept |-> kept[i].title[1][1]]

C5_Headlines ==
    (Returned /\ Result.ok) =>
        LET h == Result.value.headlines
            raw == IF inp.source.news = None THEN <<>> ELSE inp.source.news[1]
        IN /\ [i \in DOMAIN h |-> h[i].title] = ExpectedTitles(raw)
           /\ \A i \in DOMAIN h : h[i].title # ""
           /\ Len(h) <= MAX_HEADLINES
           /\ (raw = <<>> => h = <<>>)

\* a sixth, titled item is cut off and an untitled one among the first five dropped
C5_Witness ==
    /\ Returned /\ Result.ok
    /\ inp.source.news # None
    /\ Len(inp.source.news[1]) > MAX_HEADLINES
    /\ Titled(inp.source.news[1][MAX_HEADLINES + 1])
    /\ ~Titled(inp.source.news[1][1])
    /\ Titled(inp.source.news[1][2])
    /\ Len(Result.value.headlines) = MAX_HEADLINES - 1

(***************************************************************************)
(* SpecSchema: each model's constructor called once on each candidate.     *)
(***************************************************************************)
ListEntries == {None, Some(""), Some("p")}
StrLists == SeqsUpTo(ListEntries, MaxListLen)
\* tenths: -0.1, 0.0, 0.5, 1.0, 1.5
Confidences == {-1, 0, 5, 10, 15}

MemoCandidates ==
    [perspective : {"bear", "bull", "neutral"},
     ticker : {<<"A">>},
     summary : {SummaryMaxLen, SummaryMaxLen + 1},
     key_points : StrLists,
     risk_reward_assessment : {RiskRewardMaxLen, RiskRewardMaxLen + 1},
     confidence_in_thesis : Confidences]

SynthCandidates ==
    [ticker : {<<"A">>},
     recommendation : {"BUY", "STRONG_SELL", "MAYBE"},
     confidence_score : Confidences,
     synthesis_summary : {SynthesisSummaryMaxLen, SynthesisSummaryMaxLen + 1},
     key_caveats : StrLists]

GoodMemo(p) ==
    [perspective |-> p, ticker |-> <<"A">>, summary |-> 120,
     key_points |-> <<"p1", "p2", "p3">>, risk_reward_assessment |-> 80,
     confidence_in_thesis |-> 7]

SchemaInputs ==
    [model : {"AnalystMemo"}, fields : MemoCandidates]
    \cup [model : {"SynthesizerOutput", "FinalRecommendation"}, fields : SynthCandidates]

InitSchema ==
    /\ pc = "call"
    /\ inp \in SchemaInputs
    /\ out = None
    /\ Unused

ConstructAnalystMemo ==
    /\ pc = "call"
    /\ inp.model = "AnalystMemo"
    /\ out' = Some(AnalystMemo(inp.fields))
    /\ pc' = "returned"
    /\ UNCHANGED <<ticker, report, bear_memo, bull_memo, final, final2, calls, exc,
                   messages, displayed, inp>>

ConstructSynthesizerOutput ==
    /\ pc = "call"
    /\ inp.model = "SynthesizerOutput"
    /\ out' = Some(SynthesizerOutput(inp.fields))
    /\ pc' = "returned"
    /\ UNCHANGED <<ticker, report, bear_memo, bull_memo, final, final2, calls, exc,
                   messages, displayed, inp>>

ConstructFinalRecommendation ==
    /\ pc = "call"
    /\ inp.model = "FinalRecommendation"
    /\ out' = Some(FinalRecommendation(inp.fields, GoodMemo("bull"), GoodMemo("bear")))
    /\ pc' = "returned"
    /\ UNCHANGED <<ticker, report, bear_memo, bull_memo, final, final2, calls, exc,
                   messages, displayed, inp>>

NextSchema ==
    \/ ConstructAnalystMemo
    \/ ConstructSynthesizerOutput
    \/ ConstructFinalRecommendation

SpecSchema == InitSchema /\ [][NextSchema]_vars

(***************************************************************************)
(* C6.  Constructing an AnalystMemo succeeds only if confidence_in_thesis  *)
(* is in [0, 1] and key_points has 3 to 5 entries: 1.5 is rejected, 2      *)
(* entries are rejected, exactly 3 and exactly 5 are accepted, 6 are       *)
(* rejected; a rejection is a failure of the construction and a success    *)
(* returns the values as given, none corrected.                            *)
(***************************************************************************)
OtherFieldsFine(c) ==
    /\ c.perspective \in {"bear", "bull"}
    /\ c.summary <= 500
    /\ c.risk_reward_assessment <= 300
    /\ \A i \in DOMAIN c.key_points : c.key_points[i] # None

C6_MemoBounds ==
    (Returned /\ inp.model = "AnalystMemo") =>
        LET c == inp.fields
            n == Len(c.key_points)
            conf == c.confidence_in_thesis
        IN /\ Result.ok => (0 <= conf /\ conf <= 10 /\ 3 <= n /\ n <= 5)
           /\ (conf = 15 \/ n = 2 \/ n = 6) => ~Result.ok
           /\ (OtherFieldsFine(c) /\ 0 <= conf /\ conf <= 10 /\ n \in {3, 5}) => Result.ok
           /\ ~Result.ok => Result.exc.cls = "ValidationError"
           /\ Result.ok =>
                  /\ Result.value.confidence_in_thesis = conf
                  /\ Len(Result.value.key_points) = n
                  /\ \A i \in 1..n : Some(Result.value.key_points[i]) = c.key_points[i]

\* a memo with exactly five key points and confidence 1.0 was accepted
C6_Witness ==
    /\ Returned /\ inp.model = "AnalystMemo"
    /\ Len(inp.fields.key_points) = 5
    /\ inp.fields.confidence_in_thesis = 10
    /\ Result.ok

(***************************************************************************)
(* C10 as claimed.  Every AnalystMemo that passes validation has only      *)
(* non-empty strings in key_points, and every SynthesizerOutput or         *)
(* FinalRecommendation that passes validation has only non-empty strings   *)
(* in key_caveats.                                                         *)
(***************************************************************************)
C10_NonEmptyStrings ==
    (Returned /\ Result.ok) =>
        IF inp.model = "AnalystMemo"
        THEN \A i \in DOMAIN Result.value.key_points : Result.value.key_points[i] # ""
        ELSE \A i \in DOMAIN Result.value.key_caveats : Result.value.key_caveats[i] # ""

(***************************************************************************)
(* C10 as amended.  Every AnalystMemo that passes validation has 3 to 5    *)
(* entries in key_points and every SynthesizerOutput or                    *)
(* FinalRecommendation that passes validation has 1 to 5 entries in        *)
(* key_caveats, each entry a string given to the constructor (never a      *)
(* null); the strings may be empty.                                        *)
(***************************************************************************)
C10_StringLists ==
    (Returned /\ Result.ok) =>
        LET given == IF inp.model = "AnalystMemo"
                     THEN inp.fields.key_points ELSE inp.fields.key_caveats
            got == IF inp.model = "AnalystMemo"
                   THEN Result.value.key_points ELSE Result.value.key_caveats
            lo == IF inp.model = "AnalystMemo" THEN 3 ELSE 1
        IN /\ lo <= Len(got) /\ Len(got) <= 5
           /\ Len(got) = Len(given)
           /\ \A i \in DOMAIN got : given[i] # None /\ given[i][1] = got[i]

\* a SynthesizerOutput whose only caveat is the empty string passed validation
C10_Witness ==
    /\ Returned /\ Result.ok
    /\ inp.model = "SynthesizerOutput"
    /\ Result.value.key_caveats = <<"">>

(***************************************************************************)
(* Backends and data sources of the pipeline specifications.               *)
(***************************************************************************)
BackendMemos ==
    [perspective : {"bear", "bull", "neutral"},
     ticker : {<<"A">>, <<"Z", "Z">>},
     summary : {120},
     key_points : {<<"p1", "p2", "p3">>},
     risk_reward_assessment : {80},
     confidence_in_thesis : {3, 8}]

MemoBackends ==
    {BackendRaises(NetworkError), BackendReturns(None)}
    \cup {BackendReturns(Some(m)) : m \in BackendMemos}

BackendSynthOutputs ==
    [ticker : {<<"A">>, <<"Z", "Z">>},
     recommendation : {"BUY", "SELL"},
     confidence_score : {6, 9, 15},
     synthesis_summary : {200},
     key_caveats : {<<"c1">>}]

SynthBackends ==
    {BackendRaises(NetworkError), BackendReturns(None)}
    \cup {BackendReturns(Some(o)) : o \in BackendSynthOutputs}

GoodItem == [title |-> Present(Some("t1")), publisher |-> Present(Some("pub")), link |-> Absent]
NullPublisherItem == [title |-> Present(Some("t1")), publisher |-> Present(None), link |-> Absent]

PipelineSources ==
    {SourceRaises(NetworkError), SourceReturns(EmptyInfo, None), SourceReturns(GoodInfo, None),
     SourceReturns(GoodInfo, Some(<<GoodItem>>)),
     SourceReturns(GoodInfo, Some(<<NullPublisherItem>>))}

(***************************************************************************)
(* Spec: the four functions of the agents package called as a test would   *)
(* call them: fetch_scout_report on any ticker, the two memos in either    *)
(* order from its report, synthesize on the memos, and synthesize a second *)
(* time on the same arguments.  A call that raises ends the run.           *)
(***************************************************************************)
Init ==
    /\ pc = "start"
    /\ inp = None
    /\ out = None
    /\ Unused

Fetch ==
    /\ pc = "start"
    /\ \E t \in Tickers, src \in PipelineSources :
          LET r == fetch_scout_report(t, src)
          IN /\ ticker' = t
             /\ calls' = Append(calls, "scout")
             /\ IF r.ok
                THEN report' = Some(r.value) /\ pc' = "fetched" /\ exc' = exc
                ELSE report' = report /\ pc' = "failed" /\ exc' = Some(r.exc)
    /\ UNCHANGED <<bear_memo, bull_memo, final, final2, messages, displayed, inp, out>>

Bear ==
    /\ pc = "fetched"
    /\ bear_memo = None
    /\ \E b \in MemoBackends :
          LET r == generate_bear_memo(Get(report), b)
          IN /\ inp' = Some([call |-> "bear", backend |-> b])
             /\ calls' = Append(calls, "bear")
             /\ IF r.ok
                THEN bear_memo' = Some(r.value) /\ pc' = pc /\ exc' = exc
                ELSE bear_memo' = bear_memo /\ pc' = "failed" /\ exc' = Some(r.exc)
    /\ UNCHANGED <<ticker, report, bull_memo, final, final2, messages, displayed, out>>

Bull ==
    /\ pc = "fetched"
    /\ bull_memo = None
    /\ \E b \in MemoBackends :
          LET r == generate_bull_memo(Get(report), b)
          IN /\ inp' = Some([call |-> "bull", backend |-> b])
             /\ calls' = Append(calls, "bull")
             /\ IF r.ok
                THEN bull_memo' = Some(r.value) /\ pc' = pc /\ exc' = exc
                ELSE bull_memo' = bull_memo /\ pc' = "failed" /\ exc' = Some(r.exc)
    /\ UNCHANGED <<ticker, report, bear_memo, final, final2, messages, displayed, out>>

Synthesize ==
    /\ pc = "fetched"
    /\ bear_memo # None /\ bull_memo # None
    /\ \E b \in SynthBackends :
          LET r == synthesize(Get(bull_memo), Get(bear_memo), Get(report).metrics, b)
          IN /\ inp' = Some([call |-> "synth", backend |-> b])
             /\ calls' = Append(calls, "synth")
             /\ IF r.ok
                THEN final' = Some(r.value) /\ pc' = "synthesized" /\ exc' = exc
                ELSE final' = final /\ pc' = "failed" /\ exc' = Some(r.exc)
    /\ UNCHANGED <<ticker, report, bear_memo, bull_memo, final2, messages, displayed, out>>

SynthesizeAgain ==
    /\ pc = "synthesized"
    /\ \E b \in SynthBackends :
          LET r == synthesize(Get(bull_memo), Get(bear_memo), Get(report).metrics, b)
          IN /\ inp' = Some([call |-> "synth", backend |-> b])
             /\ calls' = Append(calls, "synth")
             /\ IF r.ok
                THEN final2' = Some(r.value) /\ pc' = "done" /\ exc' = exc
                ELSE final2' = final2 /\ pc' = "failed" /\ exc' = Some(r.exc)
    /\ UNCHANGED <<ticker, report, bear_memo, bull_memo, final, messages, displayed, out>>

Next ==
    \/ Fetch
    \/ Bear
    \/ Bull
    \/ Synthesize
    \/ SynthesizeAgain

Spec == Init /\ [][Next]_vars

(***************************************************************************)
(* C1.  Every memo generate_bear_memo returns has perspective "bear" and   *)
(* every memo generate_bull_memo returns has perspective "bull", whatever  *)
(* perspective the backend's parsed response carried.                      *)
(***************************************************************************)
C1_Perspective ==
    /\ bear_memo # None => bear_memo[1].perspective = "bear"
    /\ bull_memo # None => bull_memo[1].perspective = "bull"

\* a bear memo was just returned from a response the backend tagged "bull"
C1_Witness ==
    /\ bear_memo # None
    /\ inp # None
    /\ inp[1].call = "bear"
    /\ inp[1].backend.parsed # None
    /\ inp[1].backend.parsed[1].perspective = "bull"

(***************************************************************************)
(* C2.  A successful fetch_scout_report(t) yields metrics.ticker equal to  *)
(* t in upper case, and every memo produced from that report has that      *)
(* ticker, whatever ticker the backend's response carried.                 *)
(***************************************************************************)
UpperCased(t) ==
    [i \in 1..Len(t) |-> IF t[i] = "a" THEN "A" ELSE IF t[i] = "b" THEN "B" ELSE t[i]]

C2_Ticker ==
    /\ report # None => report[1].metrics.ticker = UpperCased(ticker)
    /\ bear_memo # None => bear_memo[1].ticker = UpperCased(ticker)
    /\ bull_memo # None => bull_memo[1].ticker = UpperCased(ticker)

\* a lower-case letter was raised, and the backend's ticker was another one
C2_Witness ==
    /\ bull_memo # None
    /\ ticker = <<"a", "B">>
    /\ inp # None
    /\ inp[1].call = "bull"
    /\ inp[1].backend.parsed # None
    /\ inp[1].backend.parsed[1].ticker = <<"Z", "Z">>
    /\ bull_memo[1].ticker = <<"A", "B">>

(***************************************************************************)
(* C3.  The FinalRecommendation synthesize returns has bull_memo equal in  *)
(* every field to its bull argument and bear_memo equal in every field to  *)
(* its bear argument, and the two argument memos are as they were before   *)
(* the call: no memo field comes from the backend's SynthesizerOutput.     *)
(***************************************************************************)
C3_MemosEmbedded ==
    [][(pc = "fetched" /\ pc' = "synthesized") =>
          /\ final' # None
          /\ final'[1].bull_memo = bull_memo[1]
          /\ final'[1].bear_memo = bear_memo[1]
          /\ bull_memo' = bull_memo
          /\ bear_memo' = bear_memo]_vars

\* synthesize returned, and the backend's confidence and ticker are not the memos'
C3_Witness ==
    /\ pc = "synthesized"
    /\ final # None
    /\ final[1].ticker # final[1].bull_memo.ticker
    /\ final[1].confidence_score # final[1].bull_memo.confidence_in_thesis
    /\ final[1].bull_memo.confidence_in_thesis # final[1].bear_memo.confidence_in_thesis

(***************************************************************************)
(* C8 as claimed.  Two calls of synthesize with the same arguments whose   *)
(* backend responses differ return results that agree on ticker, bull_memo *)
(* and bear_memo.                                                          *)
(***************************************************************************)
C8_OnlyFourFieldsDepend ==
    (final # None /\ final2 # None) =>
        /\ final[1].ticker = final2[1].ticker
        /\ final[1].bull_memo = final2[1].bull_memo
        /\ final[1].bear_memo = final2[1].bear_memo

(***************************************************************************)
(* C8 as amended.  Only ticker, recommendation, confidence_score,          *)
(* synthesis_summary and key_caveats depend on the backend's response: two *)
(* calls of synthesize with the same arguments whose backend responses     *)
(* differ return results that agree on bull_memo and bear_memo.            *)
(***************************************************************************)
C8_MemosIndependent ==
    (final # None /\ final2 # None) =>
        /\ final[1].bull_memo = final2[1].bull_memo
        /\ final[1].bear_memo = final2[1].bear_memo

\* the two responses differed in ticker and in recommendation
C8_Witness ==
    /\ final # None /\ final2 # None
    /\ final[1].ticker # final2[1].ticker
    /\ final[1].recommendation # final2[1].recommendation

(***************************************************************************)
(* SpecDriver: app.py, one click on Analyze.  Each action is one stage     *)
(* call of the try block together with the except clause a failure of it   *)
(* reaches.                                                                *)
(***************************************************************************)
TextChars == {"a", "B", " "}
TextInputs == SeqsUpTo(TextChars, MaxTickerLen)

\* lines 211-216: the except clauses, in order
Classify(e) ==
    IF IsInstance(e, "ValueError") THEN "invalid_ticker"
    ELSE IF IsInstance(e, "RuntimeError") THEN "analysis_failed"
    ELSE "unexpected"

\* a mutant of NextStage: the bull memo is generated before the bear memo
NextStageBullFirst(stage) ==
    CASE stage = "scout" -> "bull"
      [] stage = "bull" -> "bear"
      [] stage = "bear" -> "synth"
      [] stage = "synth" -> "display"

\* lines 183-209: the statement after a stage that returned
NextStage(stage) ==
    CASE stage = "scout" -> "bear"
      [] stage = "bear" -> "bull"
      [] stage = "bull" -> "synth"
      [] stage = "synth" -> "display"

\* the stage raised e: st.error, and the script ends
Fail(e) ==
    /\ exc' = Some(e)
    /\ messages' = Append(messages, Classify(e))
    /\ pc' = "done"

InitDriver ==
    /\ pc = "input"
    /\ inp = None
    /\ out = None
    /\ Unused

\* lines 172-180: st.text_input(...).strip().upper(); the button is disabled
\* while the ticker is empty
Analyze ==
    /\ pc = "input"
    /\ \E text \in TextInputs :
          /\ Upper(Strip(text)) # <<>>
          /\ inp' = Some(text)
          /\ ticker' = Upper(Strip(text))
    /\ pc' = "scout"
    /\ UNCHANGED <<report, bear_memo, bull_memo, final, final2, calls, exc, messages,
                   displayed, out>>

DriverScout ==
    /\ pc = "scout"
    /\ calls' = Append(calls, "scout")
    /\ \E src \in PipelineSources :
          LET r == fetch_scout_report(ticker, src)
          IN IF r.ok
             THEN report' = Some(r.value) /\ pc' = NextStage("scout")
                  /\ UNCHANGED <<exc, messages>>
             ELSE report' = report /\ Fail(r.exc)
    /\ UNCHANGED <<ticker, bear_memo, bull_memo, final, final2, displayed, inp, out>>

DriverBear ==
    /\ pc = "bear"
    /\ calls' = Append(calls, "bear")
    /\ \E b \in MemoBackends :
          LET r == generate_bear_memo(Get(report), b)
          IN IF r.ok
             THEN bear_memo' = Some(r.value) /\ pc' = NextStage("bear")
                  /\ UNCHANGED <<exc, messages>>
             ELSE bear_memo' = bear_memo /\ Fail(r.exc)
    /\ UNCHANGED <<ticker, report, bull_memo, final, final2, displayed, inp, out>>

DriverBull ==
    /\ pc = "bull"
    /\ calls' = Append(calls, "bull")
    /\ \E b \in MemoBackends :
          LET r == generate_bull_memo(Get(report), b)
          IN IF r.ok
             THEN bull_memo' = Some(r.value) /\ pc' = NextStage("bull")
                  /\ UNCHANGED <<exc, messages>>
             ELSE bull_memo' = bull_memo /\ Fail(r.exc)
    /\ UNCHANGED <<ticker, report, bear_memo, final, final2, displayed, inp, out>>

DriverSynth ==
    /\ pc = "synth"
    /\ calls' = Append(calls, "synth")
    /\ \E b \in SynthBackends :
          LET r == synthesize(Get(bull_memo), Get(bear_memo), Get(report).metrics, b)
          IN IF r.ok
             THEN final' = Some(r.value) /\ pc' = NextStage("synth")
                  /\ UNCHANGED <<exc, messages>>
             ELSE final' = final /\ Fail(r.exc)
    /\ UNCHANGED <<ticker, report, bear_memo, bull_memo, final2, displayed, inp, out>>

\* lines 205-209: display_metrics_sidebar, display_results(final)
Display ==
    /\ pc = "display"
    /\ displayed' = final
    /\ pc' = "done"
    /\ UNCHANGED <<ticker, report, bear_memo, bull_memo, final, final2, calls, exc,
                   messages, inp, out>>

NextDriver ==
    \/ Analyze
    \/ DriverScout
    \/ DriverBear
    \/ DriverBull
    \/ DriverSynth
    \/ Display

SpecDriver == InitDriver /\ [][NextDriver]_vars

(***************************************************************************)
(* C7.  In every run of the driver the stages are invoked in the order     *)
(* Scout, bear memo, bull memo, Synthesizer, each at most once; once a     *)
(* stage has failed no stage is invoked and nothing is displayed; a        *)
(* FinalRecommendation is handed to the display layer only if all four     *)
(* stages succeeded; a run ends with one complete FinalRecommendation and  *)
(* no error message, or with no artifact and one error message.            *)
(***************************************************************************)
StageOrder == <<"scout", "bear", "bull", "synth">>

C7_RunShape ==
    /\ Len(calls) <= 4
    /\ calls = [i \in 1..Len(calls) |-> StageOrder[i]]
    /\ displayed # None =>
          /\ calls = StageOrder
          /\ exc = None
          /\ report # None /\ bear_memo # None /\ bull_memo # None
          /\ displayed = final
          /\ displayed[1].bull_memo = bull_memo[1]
          /\ displayed[1].bear_memo = bear_memo[1]
    /\ pc = "done" =>
          \/ displayed # None /\ messages = <<>>
          \/ displayed = None /\ Len(messages) = 1 /\ exc # None

C7_Sequential ==
    [](C7_RunShape)
    /\ [][exc # None => (calls' = calls /\ displayed' = displayed)]_vars

\* a run in which the bull stage failed: two stages ran before it and none after
C7_Witness ==
    /\ pc = "done"
    /\ calls = <<"scout", "bear", "bull">>
    /\ exc # None
    /\ report # None /\ bear_memo # None /\ bull_memo = None
    /\ displayed = None

(***************************************************************************)
(* C9.  Every failure of a run is reported under exactly one class:        *)
(* Scout's no-usable-price failure as invalid-ticker; a backend transport  *)
(* failure or a structurally unparseable response in the Analyst or the    *)
(* Synthesizer as analysis-failed, both raised as RuntimeError and the     *)
(* transport one wrapping the underlying exception; any other failure as   *)
(* unexpected.  No failure is swallowed inside a stage.                    *)
(***************************************************************************)
NoPriceSites == {"scout:invalid_ticker", "scout:no_current_price"}
TransportSites == {"analyst:api_call_failed", "synthesizer:api_call_failed"}
StructuralSites == {"analyst:invalid_response", "synthesizer:invalid_response"}

C9_ErrorClasses ==
    (pc = "done" /\ exc # None) =>
        /\ Len(messages) = 1
        /\ displayed = None
        /\ IF exc[1].site \in NoPriceSites
           THEN messages[1] = "invalid_ticker"
           ELSE IF exc[1].site \in TransportSites \cup StructuralSites
           THEN /\ messages[1] = "analysis_failed"
                /\ exc[1].cls = "RuntimeError"
                /\ exc[1].site \in TransportSites => exc[1].cause # None
           ELSE messages[1] = "unexpected"

(***************************************************************************)
(* C11.  In fetch_scout_report the second price guard ("Could not          *)
(* determine current price") is unreachable: for every info payload that   *)
(* passes the initial validity check (payload non-empty and not both       *)
(* regularMarketPrice and currentPrice null), the fallback chain yields a  *)
(* non-null current_price.                                                 *)
(***************************************************************************)
PassesInitialCheck(info) ==
    ~info.empty /\ ~(info.regularMarketPrice = None /\ info.currentPrice = None)

C11_SecondGuardUnreachable ==
    (Returned /\ ~inp.source.raises /\ PassesInitialCheck(inp.source.info)) =>
        /\ ~(~Result.ok /\ Result.exc.site = "scout:no_current_price")
        /\ Result.ok => Result.value.metrics.current_price \in Int
====
